---------------------------- MODULE Spec2Model ----------------------------
(***************************************************************************)
(* GPS tracking / navigation / walking-session logic of the App component  *)
(* (src/src/App.tsx).                                                      *)
(*                                                                         *)
(* The component keeps its state in independent React state cells.  Every  *)
(* handler is a closure over the values of the render in which it was      *)
(* created: a handler that runs reads those captured values, and its       *)
(* set-state calls become visible in the next render.  One step of the     *)
(* model is one handler (or one continuation of an async handler, or one   *)
(* platform callback) followed by the re-render and the effect cleanup it  *)
(* causes.  Callbacks registered with the platform (watchPosition) keep    *)
(* the closure of the render in which they were registered.                *)
(*                                                                         *)
(* Geography: positions lie on one meridian and are given in metres of arc *)
(* along it, so the haversine distance of two positions is the absolute    *)
(* difference of their coordinates.  Speeds are in metres per hour         *)
(* (km/h * 1000), times in milliseconds.                                   *)
(***************************************************************************)
EXTENDS Integers, Sequences, FiniteSets, TLC

VARIABLES
    \* React state of App
    startPoint, endPoint, currentLocation, gpsEnabled, gpsLoading, gpsError,
    isTracking, watchId, navigationMode, distanceToDestination,
    locationHistory, currentSession, walkingSessions, walkingStats,
    estimatedArrivalTime, averageWalkingSpeed,
    \* platform
    geolocation,             \* navigator.geolocation is present
    notificationPermission,  \* Notification.permission
    watches,                 \* open watchPosition registrations: id -> closure
    nextWatchId,             \* the id the next watchPosition call returns
    now,                     \* Date.now()
    pendingPosition,         \* getCurrentPosition requests in flight
    pendingNavigation,       \* startNavigation calls suspended in their await
    \* a call of one of the pure helpers on its own
    helperCall,              \* its arguments and, once it returned, its result
    \* observation
    navigationsStarted,      \* number of startNavigation calls so far
    navigationLog,           \* what happened since the last startNavigation ran
    lastEvent                \* the step just taken: op "fix" (a position of the
                             \* watch; code is that of the error delivered just
                             \* before it, if any), "error" (an error of the
                             \* watch), "start" (startNavigation ran),
                             \* "noDestination" (startNavigation alerted and
                             \* returned), "stop" (stopNavigation ran),
                             \* "stopTracking" (stopTracking ran on its own)
                             \* or "other"; nav is navigationMode before the
                             \* step

vars == <<startPoint, endPoint, currentLocation, gpsEnabled, gpsLoading, gpsError,
          isTracking, watchId, navigationMode, distanceToDestination,
          locationHistory, currentSession, walkingSessions, walkingStats,
          estimatedArrivalTime, averageWalkingSpeed,
          geolocation, helperCall, notificationPermission, watches, nextWatchId, now,
          pendingPosition, pendingNavigation,
          navigationsStarted, navigationLog,
          lastEvent>>

appState == <<startPoint, endPoint, currentLocation, gpsEnabled, gpsLoading, gpsError,
              isTracking, watchId, navigationMode, distanceToDestination,
              locationHistory, currentSession, walkingSessions, walkingStats,
              estimatedArrivalTime, averageWalkingSpeed>>

-----------------------------------------------------------------------------
(* Bounds of the model *)

MaxClock == 1
MaxFixes == 2
MaxNavigations == 2
MaxSessions == 3
MaxTrailFixes == 102
MaxWalkStarts == 4
MaxWalkFixes == 3

(* Program constants *)

ArrivalRadius == 50
TrailKeep == 99
DefaultWalkingSpeed == 4500
MsPerHour == 3600000
\* the step of the model's clock: one minute
TickMs == 60 * 1000

(* Inputs *)

MapPoints == {0}
\* positions the platform's watch reports, each <<latitude, accuracy>>
Fixes == {<<49, 5>>, <<50, 5>>, <<51, 15>>}
\* positions of a walk that comes back towards its start: 53 and 51 are
\* outside the arrival radius, 49 inside
WalkFixes == {<<49, 5>>, <<51, 15>>, <<53, 5>>}
\* positions the platform answers a single request with
SingleFixes == {<<51, 15>>}
ErrorCodes == {"PERMISSION_DENIED", "POSITION_UNAVAILABLE", "TIMEOUT"}
RequestKinds == {"show"}

(* An optional value (T | null) is a sequence of length at most one. *)

Null == <<>>
Some(x) == <<x>>
Val(o) == o[1]

Abs(x) == IF x < 0 THEN -x ELSE x

-----------------------------------------------------------------------------
(* Pure helpers *)

RECURSIVE SumSeq(_)
\* sum of a sequence of numbers: Array.prototype.reduce((sum, x) => sum + x, 0)
SumSeq(s) ==
    IF s = <<>> THEN 0 ELSE Head(s) + SumSeq(Tail(s))

\* Array.prototype.map, for each of the fields the statistics sum
Accuracies(path) == [i \in 1..Len(path) |-> path[i].accuracy]

\* prev.slice(-n): the last n elements (all of them when there are fewer)
SliceLast(s, n) ==
    IF Len(s) <= n THEN s ELSE SubSeq(s, Len(s) - n + 1, Len(s))

\* haversine distance of two positions of the meridian, in metres
calculateDistance(lat1, lat2) == Abs(lat2 - lat1)

\* km/h * 1000; 0 when no time has passed
\* mutant of calculateSpeed: no early return for no time, whose speed is
\* then a division by zero (NaN or Infinity, here -1)
calculateSpeedUnguarded(distance, timeMs) ==
    IF timeMs = 0 THEN 0 - 1 ELSE (distance * MsPerHour) \div timeMs

calculateSpeed(distance, timeMs) ==
    IF timeMs = 0 THEN 0 ELSE (distance * MsPerHour) \div timeMs

RECURSIVE calculateTotalPathDistance(_)
calculateTotalPathDistance(path) ==
    IF Len(path) < 2 THEN 0
    ELSE calculateTotalPathDistance(SubSeq(path, 1, Len(path) - 1))
         + calculateDistance(path[Len(path) - 1].latitude, path[Len(path)].latitude)

\* Date.now() + distance / speed, in ms; speed 0 divides by zero (Infinity: an
\* invalid Date), modelled as the value -1
predictArrivalTime(distance, speed) ==
    IF speed = 0 THEN -1 ELSE now + (distance * MsPerHour) \div speed

SessionDistances(sessions) == [i \in 1..Len(sessions) |-> sessions[i].totalDistance]
SessionDurations(sessions) == [i \in 1..Len(sessions) |-> sessions[i].duration]
SessionSpeeds(sessions) == [i \in 1..Len(sessions) |-> sessions[i].averageSpeed]
SessionAccuracies(sessions) ==
    [i \in 1..Len(sessions) |-> SumSeq(Accuracies(sessions[i].path))]
SessionPoints(sessions) == [i \in 1..Len(sessions) |-> Len(sessions[i].path)]

\* mutant of calculateWalkingStats: the average speed is total distance over
\* total time
calculateWalkingStatsWeighted(sessions) ==
    IF Len(sessions) = 0
    THEN [totalSessions |-> 0, totalDistance |-> 0, totalTime |-> 0,
          averageSpeed |-> 0, averageAccuracy |-> 0]
    ELSE LET totalAccuracy == SumSeq(SessionAccuracies(sessions))
             totalPoints == SumSeq(SessionPoints(sessions))
             totalDistance == SumSeq(SessionDistances(sessions))
             totalTime == SumSeq(SessionDurations(sessions))
         IN [totalSessions |-> Len(sessions),
             totalDistance |-> totalDistance,
             totalTime |-> totalTime,
             averageSpeed |-> calculateSpeed(totalDistance, totalTime),
             averageAccuracy |-> IF totalPoints > 0
                                 THEN totalAccuracy \div totalPoints ELSE 0]

\* mutant of calculateWalkingStats: no early return for the empty list, whose
\* average speed is then 0 / 0 (NaN, here -1)
calculateWalkingStatsUnguarded(sessions) ==
    LET totalAccuracy == SumSeq(SessionAccuracies(sessions))
        totalPoints == SumSeq(SessionPoints(sessions))
    IN [totalSessions |-> Len(sessions),
        totalDistance |-> SumSeq(SessionDistances(sessions)),
        totalTime |-> SumSeq(SessionDurations(sessions)),
        averageSpeed |-> IF Len(sessions) = 0 THEN -1
                         ELSE SumSeq(SessionSpeeds(sessions)) \div Len(sessions),
        averageAccuracy |-> IF totalPoints > 0
                            THEN totalAccuracy \div totalPoints ELSE 0]

calculateWalkingStats(sessions) ==
    IF Len(sessions) = 0
    THEN [totalSessions |-> 0, totalDistance |-> 0, totalTime |-> 0,
          averageSpeed |-> 0, averageAccuracy |-> 0]
    ELSE LET totalAccuracy == SumSeq(SessionAccuracies(sessions))
             totalPoints == SumSeq(SessionPoints(sessions))
         IN [totalSessions |-> Len(sessions),
             totalDistance |-> SumSeq(SessionDistances(sessions)),
             totalTime |-> SumSeq(SessionDurations(sessions)),
             averageSpeed |-> SumSeq(SessionSpeeds(sessions)) \div Len(sessions),
             averageAccuracy |-> IF totalPoints > 0
                                 THEN totalAccuracy \div totalPoints ELSE 0]

\* a GPSPosition built from a platform position
GPSPosition(lat, acc) == [latitude |-> lat, accuracy |-> acc, timestamp |-> now]

\* the WalkingSession startWalkingSession creates
NewSession(startLocation) ==
    [id |-> now, startTime |-> now, endTime |-> Null,
     startLocation |-> startLocation, endLocation |-> Null,
     path |-> <<startLocation>>, totalDistance |-> 0, averageSpeed |-> 0,
     duration |-> 0]

\* mutant of UpdatedSession: the path starts again at the new position
UpdatedSessionRestarts(session, newPosition) ==
    LET path == <<newPosition>>
        totalDistance == calculateTotalPathDistance(path)
        duration == now - session.startTime
    IN [session EXCEPT !.path = path, !.totalDistance = totalDistance,
                       !.duration = duration,
                       !.averageSpeed = calculateSpeed(totalDistance, duration)]

\* the session the watch callback stores after a fix
UpdatedSession(session, newPosition) ==
    LET path == Append(session.path, newPosition)
        totalDistance == calculateTotalPathDistance(path)
        duration == now - session.startTime
    IN [session EXCEPT !.path = path, !.totalDistance = totalDistance,
                       !.duration = duration,
                       !.averageSpeed = calculateSpeed(totalDistance, duration)]

\* mutant of CompletedSession: distance and speed are those of the open session
CompletedSessionStale(session, endLocation) ==
    [session EXCEPT !.endTime = Some(now), !.endLocation = Some(endLocation),
                    !.path = Append(session.path, endLocation),
                    !.duration = now - session.startTime]

\* the completed session built on arrival and by endWalkingSession
CompletedSession(session, endLocation) ==
    LET path == Append(session.path, endLocation)
        totalDistance == calculateTotalPathDistance(path)
        duration == now - session.startTime
    IN [session EXCEPT !.endTime = Some(now), !.endLocation = Some(endLocation),
                       !.path = path, !.totalDistance = totalDistance,
                       !.averageSpeed = calculateSpeed(totalDistance, duration),
                       !.duration = duration]

-----------------------------------------------------------------------------
(* Initial state: the useState initial values, before any event *)

Init ==
    /\ startPoint = Null
    /\ endPoint = Null
    /\ currentLocation = Null
    /\ gpsEnabled = FALSE
    /\ gpsLoading = FALSE
    /\ gpsError = Null
    /\ isTracking = FALSE
    /\ watchId = Null
    /\ navigationMode = FALSE
    /\ distanceToDestination = Null
    /\ locationHistory = <<>>
    /\ currentSession = Null
    /\ walkingSessions = <<>>
    /\ walkingStats = Null
    /\ estimatedArrivalTime = Null
    /\ averageWalkingSpeed = DefaultWalkingSpeed
    /\ geolocation \in BOOLEAN
    /\ helperCall = Null
    /\ notificationPermission \in {"default", "granted"}
    /\ watches = {}
    /\ nextWatchId = 1
    /\ now = 0
    /\ pendingPosition = Null
    /\ pendingNavigation = <<>>
    /\ navigationsStarted = 0
    /\ navigationLog = [arrivals |-> 0, notices |-> 0, fixes |-> <<>>]
    /\ lastEvent = [op |-> "other", nav |-> FALSE, code |-> "", fix |-> Null]

\* lastEvent of a step that is neither a callback of the watch nor the start
\* of a navigation
Other == [op |-> "other", nav |-> FALSE, code |-> "", fix |-> Null]

platform == <<geolocation, notificationPermission, watches, nextWatchId, now,
              pendingPosition, pendingNavigation>>

-----------------------------------------------------------------------------
(* Destination-changing intents of the map *)

\* MapClickHandler.handleMapClick outside the custom-node mode
MapClick(p) ==
    /\ IF startPoint = Null
       THEN startPoint' = Some(p) /\ UNCHANGED endPoint
       ELSE IF endPoint = Null
            THEN endPoint' = Some(p) /\ UNCHANGED startPoint
            ELSE startPoint' = Some(p) /\ endPoint' = Null
    /\ lastEvent' = Other
    /\ UNCHANGED <<currentLocation, gpsEnabled, gpsLoading, gpsError, isTracking,
                   watchId, navigationMode, distanceToDestination, locationHistory,
                   currentSession, walkingSessions, walkingStats,
                   estimatedArrivalTime, averageWalkingSpeed, platform, helperCall,
                   navigationsStarted, navigationLog>>

\* the clear button
ClearPoints ==
    /\ startPoint' = Null
    /\ endPoint' = Null
    /\ lastEvent' = Other
    /\ UNCHANGED <<currentLocation, gpsEnabled, gpsLoading, gpsError, isTracking,
                   watchId, navigationMode, distanceToDestination, locationHistory,
                   currentSession, walkingSessions, walkingStats,
                   estimatedArrivalTime, averageWalkingSpeed, platform, helperCall,
                   navigationsStarted, navigationLog>>

-----------------------------------------------------------------------------
(* Single position requests: handleGetCurrentLocation ("show"),              *)
(* useCurrentLocationAsStart ("start"), useCurrentLocationAsEnd ("end").     *)
(* Their buttons are disabled while gpsLoading.                              *)

ErrorMessage(code) ==
    CASE code = "PERMISSION_DENIED" -> "denied"
      [] code = "POSITION_UNAVAILABLE" -> "unavailable"
      [] code = "TIMEOUT" -> "timeout"
      [] OTHER -> "failed"

\* the click, up to the await of getCurrentPosition()
RequestPosition(kind) ==
    /\ ~gpsLoading
    /\ IF ~geolocation
       THEN \* the promise rejects at once; catch and finally run
            /\ gpsError' = Some("unsupported")
            /\ gpsLoading' = FALSE
            /\ UNCHANGED pendingPosition
       ELSE /\ gpsError' = Null
            /\ gpsLoading' = TRUE
            /\ pendingPosition' = Some(kind)
    /\ lastEvent' = Other
    /\ UNCHANGED <<startPoint, endPoint, currentLocation, gpsEnabled, isTracking,
                   watchId, navigationMode, distanceToDestination, locationHistory,
                   currentSession, walkingSessions, walkingStats,
                   estimatedArrivalTime, averageWalkingSpeed,
                   geolocation, helperCall, notificationPermission, watches, nextWatchId, now,
                   pendingNavigation, navigationsStarted,
                   navigationLog>>

\* the platform answers the request with a position
PositionResolved(lat, acc) ==
    /\ pendingPosition # Null
    /\ currentLocation' = Some(GPSPosition(lat, acc))
    /\ gpsEnabled' = TRUE
    /\ gpsLoading' = FALSE
    /\ pendingPosition' = Null
    /\ startPoint' = IF Val(pendingPosition) = "start" THEN Some(lat) ELSE startPoint
    /\ endPoint' = IF Val(pendingPosition) = "end" THEN Some(lat) ELSE endPoint
    /\ lastEvent' = Other
    /\ UNCHANGED <<gpsError, isTracking, watchId, navigationMode,
                   distanceToDestination, locationHistory, currentSession,
                   walkingSessions, walkingStats, estimatedArrivalTime,
                   averageWalkingSpeed,
                   geolocation, helperCall, notificationPermission, watches, nextWatchId, now,
                   pendingNavigation, navigationsStarted,
                   navigationLog>>

\* mutant of PositionRejected: the failure also drops the current location
PositionRejectedClears(code) ==
    /\ pendingPosition # Null
    /\ gpsError' = Some(ErrorMessage(code))
    /\ gpsLoading' = FALSE
    /\ pendingPosition' = Null
    /\ currentLocation' = Null
    /\ lastEvent' = Other
    /\ UNCHANGED <<startPoint, endPoint, gpsEnabled, isTracking,
                   watchId, navigationMode, distanceToDestination, locationHistory,
                   currentSession, walkingSessions, walkingStats,
                   estimatedArrivalTime, averageWalkingSpeed,
                   geolocation, helperCall, notificationPermission, watches, nextWatchId, now,
                   pendingNavigation, navigationsStarted,
                   navigationLog>>

\* the platform answers the request with an error
PositionRejected(code) ==
    /\ pendingPosition # Null
    /\ gpsError' = Some(ErrorMessage(code))
    /\ gpsLoading' = FALSE
    /\ pendingPosition' = Null
    /\ lastEvent' = Other
    /\ UNCHANGED <<startPoint, endPoint, currentLocation, gpsEnabled, isTracking,
                   watchId, navigationMode, distanceToDestination, locationHistory,
                   currentSession, walkingSessions, walkingStats,
                   estimatedArrivalTime, averageWalkingSpeed,
                   geolocation, helperCall, notificationPermission, watches, nextWatchId, now,
                   pendingNavigation, navigationsStarted,
                   navigationLog>>

-----------------------------------------------------------------------------
(* Position stream *)

\* mutant of ClearWatch: the registration stays open
ClearWatchKeeps(ws, id) == ws

\* navigator.geolocation.clearWatch(id)
ClearWatch(ws, id) == {w \in ws : w.id # id}

\* mutant of EffectCleanup: the effect on watchId has no cleanup
EffectCleanupMissing(ws, oldWatchId, newWatchId) == ws

\* the cleanup of the effect on watchId, run when watchId changes
EffectCleanup(ws, oldWatchId, newWatchId) ==
    IF oldWatchId # Null /\ oldWatchId # newWatchId
    THEN ClearWatch(ws, Val(oldWatchId))
    ELSE ws

\* startTracking of the render whose endPoint, navigationMode and
\* currentSession are those of cl
startTracking(cl) ==
    IF ~geolocation
    THEN /\ gpsError' = Some("unsupported")
         /\ UNCHANGED <<watches, nextWatchId, watchId, isTracking, gpsEnabled>>
    ELSE /\ watches' = EffectCleanup(
                          watches \cup {[id |-> nextWatchId,
                                         endPoint |-> cl.endPoint,
                                         navigationMode |-> cl.navigationMode,
                                         currentSession |-> cl.currentSession]},
                          watchId, Some(nextWatchId))
         /\ nextWatchId' = nextWatchId + 1
         /\ watchId' = Some(nextWatchId)
         /\ isTracking' = TRUE
         /\ gpsEnabled' = TRUE
         /\ UNCHANGED gpsError

\* mutant of stopTracking: the tracking flag is toggled, not cleared
stopTrackingToggles ==
    /\ IF watchId # Null
       THEN /\ watches' = EffectCleanup(ClearWatch(watches, Val(watchId)), watchId, Null)
            /\ watchId' = Null
       ELSE UNCHANGED <<watches, watchId>>
    /\ isTracking' = ~isTracking

\* stopTracking
stopTracking ==
    /\ IF watchId # Null
       THEN /\ watches' = EffectCleanup(ClearWatch(watches, Val(watchId)), watchId, Null)
            /\ watchId' = Null
       ELSE UNCHANGED <<watches, watchId>>
    /\ isTracking' = FALSE

\* the arrival notification (a Notification when permitted, an alert otherwise)
NotifyArrival(log) == [log EXCEPT !.notices = @ + 1]

\* the success callback of the watch w, run with a position of the platform
onWatchPosition(w, lat, acc) ==
    LET newPosition == GPSPosition(lat, acc)
        tracked == w.currentSession # Null
        navigating == w.endPoint # Null /\ w.navigationMode
        distance == IF navigating
                    THEN calculateDistance(lat, Val(w.endPoint)) ELSE 0
        arrived == navigating /\ distance <= ArrivalRadius
        due == /\ navigationMode
               /\ endPoint # Null
               /\ calculateDistance(lat, Val(endPoint)) <= ArrivalRadius
        log1 == [navigationLog EXCEPT
                   !.arrivals = IF due THEN @ + 1 ELSE @,
                   !.fixes = IF currentSession # Null
                             THEN Append(@, newPosition) ELSE @]
    IN
    /\ w \in watches
    /\ currentLocation' = Some(newPosition)
    /\ locationHistory' = Append(SliceLast(locationHistory, TrailKeep), newPosition)
    /\ currentSession' =
         IF arrived /\ tracked THEN Null
         ELSE IF tracked THEN Some(UpdatedSession(Val(w.currentSession), newPosition))
         ELSE currentSession
    /\ distanceToDestination' = IF navigating THEN Some(distance)
                                ELSE distanceToDestination
    /\ estimatedArrivalTime' =
         IF navigating /\ tracked /\ Val(w.currentSession).averageSpeed > 0
         THEN Some(predictArrivalTime(distance, Val(w.currentSession).averageSpeed))
         ELSE estimatedArrivalTime
    /\ walkingSessions' =
         IF arrived /\ tracked
         THEN Append(walkingSessions,
                     CompletedSession(Val(w.currentSession), newPosition))
         ELSE walkingSessions
    /\ navigationLog' = IF arrived THEN NotifyArrival(log1) ELSE log1
    /\ lastEvent' = [op |-> "fix", nav |-> navigationMode,
                      code |-> IF lastEvent.op = "error" THEN lastEvent.code ELSE "",
                      fix |-> Some(newPosition)]
    /\ UNCHANGED <<startPoint, endPoint, gpsEnabled, gpsLoading, gpsError,
                   isTracking, watchId, navigationMode, walkingStats,
                   averageWalkingSpeed, platform, helperCall, navigationsStarted>>

\* the platform delivers a position to the watch w
PositionUpdate(w, lat, acc) ==
    /\ Len(locationHistory) < MaxFixes
    /\ onWatchPosition(w, lat, acc)

\* mutant of onWatchError: every error of the watch stops the tracking
onWatchErrorStops(code) ==
    /\ gpsError' = Some("tracking")
    /\ watches' = IF watchId # Null THEN ClearWatch(watches, Val(watchId)) ELSE watches
    /\ watchId' = Null
    /\ isTracking' = FALSE
    /\ UNCHANGED navigationMode

\* what the error callback of a watch does with the platform's error
onWatchError(code) ==
    /\ gpsError' = Some("tracking")
    /\ UNCHANGED <<isTracking, watchId, navigationMode, watches>>

\* the error callback of the watch w: the platform reports a delivery failure
PositionError(w, code) ==
    /\ w \in watches
    /\ onWatchError(code)
    /\ lastEvent' = [op |-> "error", nav |-> navigationMode, code |-> code,
                      fix |-> Null]
    /\ UNCHANGED <<startPoint, endPoint, currentLocation, gpsEnabled, gpsLoading,
                   distanceToDestination, locationHistory, currentSession,
                   walkingSessions, walkingStats, estimatedArrivalTime,
                   averageWalkingSpeed,
                   geolocation, helperCall, notificationPermission, nextWatchId, now,
                   pendingPosition, pendingNavigation,
                   navigationsStarted, navigationLog>>

-----------------------------------------------------------------------------
(* Walking sessions *)

\* startWalkingSession
startWalkingSession(startLocation) ==
    currentSession' = Some(NewSession(startLocation))

\* mutant of endWalkingSession: the open session is discarded, not completed
endWalkingSessionDiscards(endLocation) ==
    /\ currentSession' = Null
    /\ UNCHANGED <<walkingSessions, walkingStats, averageWalkingSpeed>>

\* mutant of endWalkingSession: the history starts again with the completed
\* session
endWalkingSessionResets(endLocation) ==
    IF currentSession = Null
    THEN UNCHANGED <<currentSession, walkingSessions, walkingStats,
                     averageWalkingSpeed>>
    ELSE LET completedSession == CompletedSession(Val(currentSession), endLocation)
             newStats == calculateWalkingStats(<<completedSession>>)
         IN /\ walkingSessions' = <<completedSession>>
            /\ currentSession' = Null
            /\ walkingStats' = Some(newStats)
            /\ averageWalkingSpeed' = IF newStats.averageSpeed > 0
                                      THEN newStats.averageSpeed
                                      ELSE averageWalkingSpeed

\* mutant of endWalkingSession: the walking speed is set to the average of
\* the statistics whatever it is
endWalkingSessionUnguarded(endLocation) ==
    IF currentSession = Null
    THEN UNCHANGED <<currentSession, walkingSessions, walkingStats,
                     averageWalkingSpeed>>
    ELSE LET completedSession == CompletedSession(Val(currentSession), endLocation)
             newStats == calculateWalkingStats(Append(walkingSessions, completedSession))
         IN /\ walkingSessions' = Append(walkingSessions, completedSession)
            /\ currentSession' = Null
            /\ walkingStats' = Some(newStats)
            /\ averageWalkingSpeed' = newStats.averageSpeed

\* endWalkingSession of the current render
endWalkingSession(endLocation) ==
    IF currentSession = Null
    THEN UNCHANGED <<currentSession, walkingSessions, walkingStats,
                     averageWalkingSpeed>>
    ELSE LET completedSession == CompletedSession(Val(currentSession), endLocation)
             newStats == calculateWalkingStats(Append(walkingSessions, completedSession))
         IN /\ walkingSessions' = Append(walkingSessions, completedSession)
            /\ currentSession' = Null
            /\ walkingStats' = Some(newStats)
            /\ averageWalkingSpeed' = IF newStats.averageSpeed > 0
                                      THEN newStats.averageSpeed
                                      ELSE averageWalkingSpeed

-----------------------------------------------------------------------------
(* Navigation *)

\* a truthy number | null
Truthy(o) == o # Null /\ Val(o) # 0

\* what a handler created in the current render has captured
Closure ==
    [endPoint |-> endPoint, navigationMode |-> navigationMode,
     currentSession |-> currentSession, currentLocation |-> currentLocation,
     distanceToDestination |-> distanceToDestination,
     averageWalkingSpeed |-> averageWalkingSpeed]

\* startNavigation after the notification-permission request, run with the
\* closure cl of the render in which it was called
startNavigationBody(cl) ==
    /\ navigationMode' = TRUE
    /\ startTracking(cl)
    /\ IF cl.currentLocation # Null
       THEN /\ startWalkingSession(Val(cl.currentLocation))
            /\ estimatedArrivalTime' =
                 IF Truthy(cl.distanceToDestination)
                 THEN Some(predictArrivalTime(Val(cl.distanceToDestination),
                                              cl.averageWalkingSpeed))
                 ELSE estimatedArrivalTime
       ELSE UNCHANGED <<currentSession, estimatedArrivalTime>>
    /\ navigationLog' = [arrivals |-> 0, notices |-> 0, fixes |-> <<>>]
    /\ lastEvent' = [op |-> "start", nav |-> navigationMode, code |-> "",
                      fix |-> Null]
    /\ UNCHANGED <<startPoint, endPoint, currentLocation, gpsLoading,
                   distanceToDestination, locationHistory, walkingSessions,
                   walkingStats, averageWalkingSpeed, geolocation, helperCall, now,
                   pendingPosition>>

\* mutant of startNavigation: no check of the destination
startNavigationUnchecked ==
    /\ navigationsStarted < MaxNavigations
    /\ navigationsStarted' = navigationsStarted + 1
    /\ IF notificationPermission = "default"
       THEN /\ pendingNavigation' = Append(pendingNavigation, Closure)
            /\ lastEvent' = Other
            /\ UNCHANGED <<appState, geolocation, helperCall, notificationPermission, watches,
                           nextWatchId, now, pendingPosition,
                           navigationLog>>
       ELSE /\ startNavigationBody(Closure)
            /\ UNCHANGED <<pendingNavigation, notificationPermission>>

\* startNavigation of the current render, up to its await: without a
\* destination it alerts and returns
startNavigationCall ==
    /\ navigationsStarted' = navigationsStarted + 1
    /\ IF endPoint = Null
       THEN /\ lastEvent' = [op |-> "noDestination", nav |-> navigationMode,
                             code |-> "", fix |-> Null]
            /\ UNCHANGED <<appState, platform, helperCall, navigationLog>>
       ELSE IF notificationPermission = "default"
       THEN /\ pendingNavigation' = Append(pendingNavigation, Closure)
            /\ lastEvent' = Other
            /\ UNCHANGED <<appState, geolocation, helperCall, notificationPermission, watches,
                           nextWatchId, now, pendingPosition,
                           navigationLog>>
       ELSE /\ startNavigationBody(Closure)
            /\ UNCHANGED <<pendingNavigation, notificationPermission>>

\* startNavigation is called
startNavigation ==
    /\ navigationsStarted < MaxNavigations
    /\ startNavigationCall

\* the start-navigation button (shown while not navigating, disabled without
\* a destination and while gpsLoading)
StartNavigation ==
    /\ ~navigationMode
    /\ endPoint # Null
    /\ ~gpsLoading
    /\ startNavigation

\* Notification.requestPermission() resolves: the oldest suspended
\* startNavigation call continues
PermissionAnswered(answer) ==
    /\ pendingNavigation # <<>>
    /\ notificationPermission' =
         IF notificationPermission = "default" THEN answer ELSE notificationPermission
    /\ startNavigationBody(Head(pendingNavigation))
    /\ pendingNavigation' = Tail(pendingNavigation)
    /\ UNCHANGED navigationsStarted

\* stopNavigation of the current render
stopNavigation ==
    /\ navigationMode' = FALSE
    /\ stopTracking
    /\ distanceToDestination' = Null
    /\ estimatedArrivalTime' = Null
    /\ IF currentSession # Null /\ currentLocation # Null
       THEN endWalkingSession(Val(currentLocation))
       ELSE UNCHANGED <<currentSession, walkingSessions, walkingStats,
                        averageWalkingSpeed>>
    /\ navigationLog' = [navigationLog EXCEPT !.fixes = <<>>]
    /\ lastEvent' = [op |-> "stop", nav |-> navigationMode, code |-> "",
                      fix |-> Null]
    /\ UNCHANGED <<startPoint, endPoint, currentLocation, gpsEnabled, gpsLoading,
                   gpsError, locationHistory,
                   geolocation, helperCall, notificationPermission, nextWatchId, now,
                   pendingPosition, pendingNavigation,
                   navigationsStarted>>

\* the stop-navigation button (shown while navigating)
StopNavigation ==
    /\ navigationMode
    /\ stopNavigation

\* the stop-tracking handler called on its own
StopTracking ==
    /\ stopTracking
    /\ lastEvent' = [op |-> "stopTracking", nav |-> navigationMode, code |-> "",
                      fix |-> Null]
    /\ UNCHANGED <<startPoint, endPoint, currentLocation, gpsEnabled, gpsLoading,
                   gpsError, navigationMode, distanceToDestination,
                   locationHistory, currentSession, walkingSessions, walkingStats,
                   estimatedArrivalTime, averageWalkingSpeed,
                   geolocation, helperCall, notificationPermission, nextWatchId, now,
                   pendingPosition, pendingNavigation,
                   navigationsStarted, navigationLog>>

\* time passes
Tick ==
    /\ now < MaxClock * TickMs
    /\ now' = now + TickMs
    /\ lastEvent' = Other
    /\ UNCHANGED <<appState, geolocation, helperCall, notificationPermission, watches,
                   nextWatchId, pendingPosition, pendingNavigation,
                   navigationsStarted, navigationLog>>

-----------------------------------------------------------------------------

Next ==
    \/ \E p \in MapPoints : MapClick(p)
    \/ ClearPoints
    \/ \E kind \in RequestKinds : RequestPosition(kind)
    \/ \E f \in SingleFixes : PositionResolved(f[1], f[2])
    \/ \E code \in ErrorCodes : PositionRejected(code)
    \/ StartNavigation
    \/ \E answer \in {"granted", "denied"} : PermissionAnswered(answer)
    \/ StopNavigation
    \/ \E w \in watches, f \in Fixes : PositionUpdate(w, f[1], f[2])
    \/ \E w \in watches, code \in ErrorCodes : PositionError(w, code)
    \/ Tick

Spec == Init /\ [][Next]_vars

\* The handlers called in any state, whatever the buttons show: the contract
\* of startNavigation, stopNavigation and stopTracking themselves.
HandlerNext ==
    \/ \E p \in MapPoints : MapClick(p)
    \/ ClearPoints
    \/ \E kind \in RequestKinds : RequestPosition(kind)
    \/ \E f \in SingleFixes : PositionResolved(f[1], f[2])
    \/ \E code \in ErrorCodes : PositionRejected(code)
    \/ startNavigation
    \/ \E answer \in {"granted", "denied"} : PermissionAnswered(answer)
    \/ stopNavigation
    \/ StopTracking
    \/ \E w \in watches, f \in WalkFixes : PositionUpdate(w, f[1], f[2])
    \/ \E w \in watches, code \in ErrorCodes : PositionError(w, code)
    \/ Tick

HandlerSpec == Init /\ [][HandlerNext]_vars

-----------------------------------------------------------------------------
(* calculateWalkingStats on its own: the statistics of any history *)

\* a completed WalkingSession that went through the points (each <<latitude,
\* accuracy>>) in the given time
SampleSession(points, duration) ==
    LET path == [i \in 1..Len(points) |->
                   [latitude |-> points[i][1], accuracy |-> points[i][2],
                    timestamp |-> 0]]
        totalDistance == calculateTotalPathDistance(path)
    IN [id |-> 0, startTime |-> 0, endTime |-> Some(duration),
        startLocation |-> path[1], endLocation |-> Some(path[Len(path)]),
        path |-> path, totalDistance |-> totalDistance,
        averageSpeed |-> calculateSpeed(totalDistance, duration),
        duration |-> duration]

SampleSessions ==
    { SampleSession(<< <<51, 15>>, <<49, 5>> >>, TickMs),
      SampleSession(<< <<0, 5>>, <<50, 5>>, <<100, 20>> >>, TickMs),
      SampleSession(<< <<49, 5>>, <<49, 5>> >>, 0),
      SampleSession(<< <<0, 15>>, <<50, 15>>, <<0, 15>>, <<50, 5>> >>, 2 * TickMs) }

\* the histories of at most MaxSessions sessions
SessionLists == UNION {[1..n -> SampleSessions] : n \in 0..MaxSessions}

StatsInit ==
    /\ startPoint = Null
    /\ endPoint = Null
    /\ currentLocation = Null
    /\ gpsEnabled = FALSE
    /\ gpsLoading = FALSE
    /\ gpsError = Null
    /\ isTracking = FALSE
    /\ watchId = Null
    /\ navigationMode = FALSE
    /\ distanceToDestination = Null
    /\ locationHistory = <<>>
    /\ currentSession = Null
    /\ walkingSessions \in SessionLists
    /\ walkingStats = Null
    /\ estimatedArrivalTime = Null
    /\ averageWalkingSpeed = DefaultWalkingSpeed
    /\ geolocation = TRUE
    /\ helperCall = Null
    /\ notificationPermission = "granted"
    /\ watches = {}
    /\ nextWatchId = 1
    /\ now = 0
    /\ pendingPosition = Null
    /\ pendingNavigation = <<>>
    /\ navigationsStarted = 0
    /\ navigationLog = [arrivals |-> 0, notices |-> 0, fixes |-> <<>>]
    /\ lastEvent = Other

\* the statistics are computed from the history and stored
UpdateStats ==
    /\ walkingStats' = Some(calculateWalkingStats(walkingSessions))
    /\ UNCHANGED <<startPoint, endPoint, currentLocation, gpsEnabled, gpsLoading,
                   gpsError, isTracking, watchId, navigationMode,
                   distanceToDestination, locationHistory, currentSession,
                   walkingSessions, estimatedArrivalTime, averageWalkingSpeed,
                   platform, helperCall, navigationsStarted, navigationLog, lastEvent>>

StatsNext == UpdateStats

StatsSpec == StatsInit /\ [][StatsNext]_vars

-----------------------------------------------------------------------------
(* A long walk: the watch of one navigation delivers many positions *)

\* a position was requested and answered, the destination set by two clicks
\* on the map, and startNavigation has run
TrailInit ==
    LET here == [latitude |-> 51, accuracy |-> 15, timestamp |-> 0]
    IN /\ startPoint = Some(0)
       /\ endPoint = Some(0)
       /\ currentLocation = Some(here)
       /\ gpsEnabled = TRUE
       /\ gpsLoading = FALSE
       /\ gpsError = Null
       /\ isTracking = TRUE
       /\ watchId = Some(1)
       /\ navigationMode = TRUE
       /\ distanceToDestination = Null
       /\ locationHistory = <<>>
       /\ currentSession = Some([id |-> 0, startTime |-> 0, endTime |-> Null,
                                 startLocation |-> here, endLocation |-> Null,
                                 path |-> <<here>>, totalDistance |-> 0,
                                 averageSpeed |-> 0, duration |-> 0])
       /\ walkingSessions = <<>>
       /\ walkingStats = Null
       /\ estimatedArrivalTime = Null
       /\ averageWalkingSpeed = DefaultWalkingSpeed
       /\ geolocation = TRUE
       /\ helperCall = Null
       /\ notificationPermission = "granted"
       /\ watches = {[id |-> 1, endPoint |-> Some(0), navigationMode |-> FALSE,
                      currentSession |-> Null]}
       /\ nextWatchId = 2
       /\ now = 0
       /\ pendingPosition = Null
       /\ pendingNavigation = <<>>
       /\ navigationsStarted = 1
       /\ navigationLog = [arrivals |-> 0, notices |-> 0, fixes |-> <<>>]
       /\ lastEvent = [op |-> "start", nav |-> FALSE, code |-> "", fix |-> Null]

\* the watch delivers the next position of the walk, each one metre further
TrailFix ==
    /\ Len(navigationLog.fixes) < MaxTrailFixes
    /\ \E w \in watches :
          onWatchPosition(w, 100 + Len(navigationLog.fixes), 5)

TrailNext == TrailFix

TrailSpec == TrailInit /\ [][TrailNext]_vars

-----------------------------------------------------------------------------
(* Walks one after the other: from the state in which the first navigation
   has started, navigation is started again and stopped while the watches
   deliver positions *)

WalkInit == TrailInit

WalkStart ==
    /\ navigationsStarted < MaxWalkStarts
    /\ startNavigationCall

WalkFix ==
    /\ Len(locationHistory) < MaxWalkFixes
    /\ \E w \in watches, f \in WalkFixes : onWatchPosition(w, f[1], f[2])

WalkStop == stopNavigation

WalkNext ==
    \/ WalkStart
    \/ WalkFix
    \/ WalkStop
    \/ Tick

WalkSpec == WalkInit /\ [][WalkNext]_vars

-----------------------------------------------------------------------------
(* The pure helpers on their own: one call, with arguments of any value *)

\* the state before any event, at any time, with one of the calls about to run
HelperInit(calls) ==
    /\ startPoint = Null
    /\ endPoint = Null
    /\ currentLocation = Null
    /\ gpsEnabled = FALSE
    /\ gpsLoading = FALSE
    /\ gpsError = Null
    /\ isTracking = FALSE
    /\ watchId = Null
    /\ navigationMode = FALSE
    /\ distanceToDestination = Null
    /\ locationHistory = <<>>
    /\ currentSession = Null
    /\ walkingSessions = <<>>
    /\ walkingStats = Null
    /\ estimatedArrivalTime = Null
    /\ averageWalkingSpeed = DefaultWalkingSpeed
    /\ geolocation = TRUE
    /\ notificationPermission = "granted"
    /\ watches = {}
    /\ nextWatchId = 1
    /\ now \in {0, TickMs}
    /\ pendingPosition = Null
    /\ pendingNavigation = <<>>
    /\ navigationsStarted = 0
    /\ navigationLog = [arrivals |-> 0, notices |-> 0, fixes |-> <<>>]
    /\ lastEvent = Other
    /\ helperCall \in calls

\* the helper returns: JavaScript arithmetic does not throw
Returned(value) == Some([returned |-> TRUE, value |-> value])

\* distances in metres and speeds in metres per hour
Distances == {0, 1, 50, 100, 500}
Speeds == {0 - 4500, 0 - 1, 0, 1, 3000, 4500}

PredictCalls ==
    {[fn |-> "predictArrivalTime", args |-> <<d, s>>, result |-> Null] :
        d \in Distances, s \in Speeds}

PredictInit == HelperInit(PredictCalls)

\* predictArrivalTime(distance, speed) runs and returns
CallPredictArrivalTime ==
    /\ helperCall.result = Null
    /\ helperCall' = [helperCall EXCEPT !.result =
                         Returned(predictArrivalTime(helperCall.args[1],
                                                     helperCall.args[2]))]
    /\ UNCHANGED <<appState, platform, navigationsStarted, navigationLog,
                   lastEvent>>

PredictNext == CallPredictArrivalTime

PredictSpec == PredictInit /\ [][PredictNext]_vars

\* the labels 北, 北東, 東, 南東, 南, 南西, 西, 北西 of the source, in its order
directions == <<"N", "NE", "E", "SE", "S", "SW", "W", "NW">>

\* mutant of bearingToDirection: the index is rounded down
bearingToDirectionFloor(bearing) == directions[((bearing \div 45) % 8) + 1]

\* Math.round(bearing / 45) % 8 for a bearing in whole degrees: no whole
\* bearing lies half way between two multiples of 45
bearingToDirection(bearing) == directions[(((2 * bearing + 45) \div 90) % 8) + 1]

\* calculateBearing returns a bearing of at least 0 and below 360 degrees
Bearings == 0 .. 359

CompassCalls ==
    {[fn |-> "bearingToDirection", args |-> <<b>>, result |-> Null] :
        b \in Bearings}

CompassInit == HelperInit(CompassCalls)

CallBearingToDirection ==
    /\ helperCall.result = Null
    /\ helperCall' = [helperCall EXCEPT
                        !.result = Returned(bearingToDirection(helperCall.args[1]))]
    /\ UNCHANGED <<appState, platform, navigationsStarted, navigationLog,
                   lastEvent>>

CompassNext == CallBearingToDirection

CompassSpec == CompassInit /\ [][CompassNext]_vars

-----------------------------------------------------------------------------
(* Properties *)

\* the position the watch delivered in the step just taken
LastFix == Val(lastEvent.fix)

\* the step just taken delivered a position while navigationMode was on and a
\* destination was set
FixWhileNavigating ==
    /\ lastEvent.op = "fix"
    /\ lastEvent.nav
    /\ endPoint # Null

\* the distance of that position to the destination
FixDistance == calculateDistance(LastFix.latitude, Val(endPoint))

TransientCodes == {"POSITION_UNAVAILABLE", "TIMEOUT"}

\* C1: a fix received while navigating that is within 50 m of the destination
\* is followed by arrival handling: navigation mode off, the watch cleared and
\* released, no session left open.
C1_ArrivalHandled ==
    (FixWhileNavigating /\ FixDistance <= ArrivalRadius)
        => /\ ~navigationMode
           /\ watchId = Null
           /\ watches = {}
           /\ currentSession = Null

\* C2: between one startNavigation and the next at most one arrival notice is
\* emitted, and exactly one once a fix within 50 m of the destination was
\* received while navigating.
C2_ExactlyOneArrived ==
    /\ navigationLog.notices <= 1
    /\ navigationLog.arrivals > 0 => navigationLog.notices = 1

\* C3: a fix received while navigating at more than 50 m leaves navigation on
\* and the session open; a fix at 50 m or less turns navigation off and moves
\* the open session to the history, which gains exactly that one entry.
C3_ArrivalThreshold ==
    [][(lastEvent'.op = "fix" /\ navigationMode /\ endPoint # Null)
        => IF calculateDistance(Val(lastEvent'.fix).latitude, Val(endPoint))
                > ArrivalRadius
           THEN /\ navigationMode'
                /\ currentSession # Null => currentSession' # Null
                /\ walkingSessions' = walkingSessions
           ELSE /\ ~navigationMode'
                /\ currentSession' = Null
                /\ currentSession # Null =>
                     /\ Len(walkingSessions') = Len(walkingSessions) + 1
                     /\ walkingSessions'[Len(walkingSessions')].id
                          = Val(currentSession).id]_vars

\* C4: while navigating with an open session, the session's path is its start
\* location followed by every fix the watch delivered since the session was
\* opened, in the order of delivery.
C4_PathIsStartThenFixes ==
    (navigationMode /\ currentSession # Null)
        => Val(currentSession).path
             = <<Val(currentSession).startLocation>> \o navigationLog.fixes

C6_NoContradictoryFlags ==
    /\ navigationMode => (watchId # Null /\ isTracking /\ watches # {})
    /\ (~navigationMode /\ ~isTracking) => (watchId = Null /\ watches = {})

\* C7: while navigation mode is on the destination is set.
C7_NavigatingHasDestination == navigationMode => endPoint # Null

\* C8: after a PERMISSION_DENIED error of the watch, navigation and tracking
\* are off and the watch is cleared and released.
C8_PermissionDeniedStops ==
    (lastEvent.op = "error" /\ lastEvent.code = "PERMISSION_DENIED")
        => /\ ~navigationMode
           /\ ~isTracking
           /\ watchId = Null
           /\ watches = {}

\* C9: an error of the watch other than PERMISSION_DENIED is surfaced in
\* gpsError and changes neither the mode, the watch handle, the open watches,
\* the destination, the current position, the session nor the history; the
\* position the watch delivers next is applied (it becomes the current position
\* and the newest entry of the trail).
C9_TransientErrorKeepsState ==
    [][/\ (lastEvent'.op = "error" /\ lastEvent'.code \in TransientCodes)
            => /\ gpsError' = Some("tracking")
               /\ UNCHANGED <<navigationMode, isTracking, watchId, watches,
                              endPoint, currentLocation, currentSession,
                              walkingSessions>>
       /\ (lastEvent'.op = "fix" /\ lastEvent'.code \in TransientCodes)
            => /\ watches' = watches
               /\ currentLocation' = lastEvent'.fix
               /\ locationHistory' # <<>>
               /\ locationHistory'[Len(locationHistory')] = Val(lastEvent'.fix)]_vars

\* C9, witness: a position was applied right after a transient error of the
\* watch, with the watch still open and navigation still on.
C9_FixAfterTransientError ==
    /\ lastEvent.op = "fix"
    /\ lastEvent.code \in TransientCodes
    /\ lastEvent.nav
    /\ navigationMode
    /\ watches # {}
    /\ currentLocation = lastEvent.fix

\* C10: on a platform without geolocation, after startNavigation ran the error
\* is surfaced and the state is idle: navigation and tracking off, no watch
\* handle, no session.
C10_UnsupportedStaysIdle ==
    (lastEvent.op = "start" /\ ~geolocation)
        => /\ gpsError = Some("unsupported")
           /\ ~navigationMode
           /\ ~isTracking
           /\ watchId = Null
           /\ currentSession = Null

\* C11: a call of startNavigation without a destination is answered with the
\* no-destination alert and changes nothing: the mode, the watch handle, the
\* open watches, the tracking flag, the session, the history, the statistics,
\* the ETA and the suspended calls are as before.
C11_NoDestinationChangesNothing ==
    [][(navigationsStarted' # navigationsStarted /\ endPoint = Null)
        => /\ lastEvent'.op = "noDestination"
           /\ UNCHANGED <<navigationMode, watchId, watches, isTracking,
                          currentSession, walkingSessions, walkingStats,
                          estimatedArrivalTime, distanceToDestination,
                          pendingNavigation, gpsError>>]_vars

\* C11, witness: startNavigation was refused for want of a destination while
\* a navigation was on with its watch open.
C11_RefusedWhileNavigating ==
    /\ lastEvent.op = "noDestination"
    /\ endPoint = Null
    /\ navigationMode
    /\ watches # {}

\* C12: when startNavigation was called with no current position, no session
\* is opened as it runs, and the first position the watch delivers afterwards
\* opens one whose path is that position alone; when it was called with a
\* current position, the session is opened from that position as it runs.
C12_SessionOpenedLazily ==
    [][LET calledWith == IF pendingNavigation' # pendingNavigation
                         THEN Head(pendingNavigation).currentLocation
                         ELSE currentLocation
       IN /\ (lastEvent'.op = "start" /\ calledWith = Null)
               => currentSession' = currentSession
          /\ (lastEvent'.op = "start" /\ calledWith # Null)
               => /\ currentSession' # Null
                  /\ Val(currentSession').path = <<Val(calledWith)>>
          /\ (lastEvent'.op = "fix" /\ navigationMode /\ currentSession = Null)
               => /\ currentSession' # Null
                  /\ Val(currentSession').path = <<Val(lastEvent'.fix)>>]_vars

\* C13: stopNavigation run while navigating with an open session turns
\* navigation off, clears and releases the watch, leaves no open session, and
\* appends to the history exactly one entry: that session, ended now at the
\* current position, which is also the last point of its path.
C13_StopCompletesSession ==
    [][(lastEvent'.op = "stop" /\ navigationMode /\ currentSession # Null)
        => /\ ~navigationMode'
           /\ ~isTracking'
           /\ watchId' = Null
           /\ watches' = {}
           /\ currentSession' = Null
           /\ Len(walkingSessions') = Len(walkingSessions) + 1
           /\ SubSeq(walkingSessions', 1, Len(walkingSessions)) = walkingSessions
           /\ LET done == walkingSessions'[Len(walkingSessions')]
              IN /\ done.id = Val(currentSession).id
                 /\ done.startLocation = Val(currentSession).startLocation
                 /\ done.endLocation = currentLocation
                 /\ done.endTime = Some(now)
                 /\ done.path = Append(Val(currentSession).path,
                                       Val(currentLocation))]_vars

\* C13, witness: stopNavigation ended a navigation during which the watch had
\* delivered a position; the session is in the history, ended at that position.
C13_StoppedWithSession ==
    /\ lastEvent.op = "stop"
    /\ lastEvent.nav
    /\ ~navigationMode
    /\ currentSession = Null
    /\ watches = {}
    /\ locationHistory # <<>>
    /\ walkingSessions # <<>>
    /\ walkingSessions[Len(walkingSessions)].endLocation
         = Some(locationHistory[Len(locationHistory)])

\* C14: stopNavigation run while navigation is off, and stopTracking run right
\* after stopTracking or stopNavigation, change nothing: every state cell of
\* the component and the set of open watches are as before.
C14_StopsAreIdempotent ==
    [][/\ (lastEvent'.op = "stop" /\ ~navigationMode)
            => UNCHANGED <<appState, watches>>
       /\ (lastEvent'.op = "stopTracking"
             /\ lastEvent.op \in {"stop", "stopTracking"})
            => UNCHANGED <<appState, watches>>]_vars

\* C14, witness: stopTracking ran a second time in a row, after a navigation
\* that had completed a session was stopped.
C14_StoppedTwice ==
    /\ lastEvent.op = "stopTracking"
    /\ ~lastEvent.nav
    /\ ~navigationMode
    /\ ~isTracking
    /\ watchId = Null
    /\ nextWatchId > 1
    /\ walkingSessions # <<>>

RECURSIVE Total(_, _)
\* f[1] + ... + f[n]
Total(f, n) == IF n = 0 THEN 0 ELSE Total(f, n - 1) + f[n]

RECURSIVE AllFixes(_)
\* the fixes of the paths of all the sessions
AllFixes(sessions) ==
    IF sessions = <<>> THEN <<>>
    ELSE Head(sessions).path \o AllFixes(Tail(sessions))

\* C17: the statistics of a non-empty history: totalSessions is the number of
\* sessions, totalDistance and totalTime the sums of their totalDistance and
\* duration, averageSpeed the sum of their averageSpeed over their number,
\* averageAccuracy the sum of the accuracy of every fix of every path over the
\* number of those fixes.
C17_StatsOfHistory ==
    (walkingStats # Null /\ walkingSessions # <<>>)
        => LET n == Len(walkingSessions)
               fixes == AllFixes(walkingSessions)
               stats == Val(walkingStats)
           IN /\ stats.totalSessions = n
              /\ stats.totalDistance
                   = Total([i \in 1..n |-> walkingSessions[i].totalDistance], n)
              /\ stats.totalTime
                   = Total([i \in 1..n |-> walkingSessions[i].duration], n)
              /\ stats.averageSpeed
                   = Total([i \in 1..n |-> walkingSessions[i].averageSpeed], n)
                       \div n
              /\ stats.averageAccuracy
                   = Total([i \in 1..Len(fixes) |-> fixes[i].accuracy], Len(fixes))
                       \div Len(fixes)

\* C17, witness: statistics of a history of sessions of different speeds and
\* lengths, whose average speed is not total distance over total time.
C17_UnweightedMean ==
    /\ walkingStats # Null
    /\ Len(walkingSessions) > 1
    /\ Val(walkingStats).averageSpeed
         # calculateSpeed(Val(walkingStats).totalDistance,
                          Val(walkingStats).totalTime)
    /\ Len(walkingSessions[1].path) # Len(walkingSessions[2].path)

\* C18: the statistics of the empty history are all zero.
C18_StatsOfEmptyHistory ==
    (walkingStats # Null /\ walkingSessions = <<>>)
        => walkingStats = Some([totalSessions |-> 0, totalDistance |-> 0,
                                totalTime |-> 0, averageSpeed |-> 0,
                                averageAccuracy |-> 0])

\* C18, witness: the statistics of the empty history were computed.
C18_EmptyHistoryAggregated ==
    /\ walkingSessions = <<>>
    /\ walkingStats # Null
    /\ Val(walkingStats).totalSessions = 0

\* the sum of the distances between the consecutive fixes of a path
PathLength(path) ==
    Total([i \in 1..(Len(path) - 1) |->
             calculateDistance(path[i].latitude, path[i + 1].latitude)],
          Len(path) - 1)

\* the open session and the sessions of the history
AllSessions ==
    {Val(currentSession) : x \in {1} \cap {Len(currentSession)}}
        \cup {walkingSessions[i] : i \in 1..Len(walkingSessions)}

C20_SessionIdsUnique ==
    [][LET calledWith == IF pendingNavigation' # pendingNavigation
                         THEN Head(pendingNavigation).currentLocation
                         ELSE currentLocation
           history == walkingSessions'
       IN /\ \A i, j \in 1..Len(history) :
               i # j => history[i].id # history[j].id
          /\ currentSession' # Null
               => \A i \in 1..Len(history) :
                     history[i].id # Val(currentSession').id
          /\ (lastEvent'.op = "start" /\ calledWith # Null)
               => \A s \in AllSessions : s.id # Val(currentSession').id]_vars

\* C21: a call of predictArrivalTime with a speed of 0 or less does not return
\* a timestamp (it fails); with a speed above 0 it returns the current time
\* plus the time the distance takes at that speed.
C21_InvalidSpeedFails ==
    (helperCall # Null /\ helperCall.fn = "predictArrivalTime"
        /\ helperCall.result # Null)
        => LET distance == helperCall.args[1]
               speed == helperCall.args[2]
               result == Val(helperCall.result)
           IN IF speed <= 0
              THEN ~result.returned
              ELSE /\ result.returned
                   /\ result.value = now + (distance * 3600000) \div speed

Compass(bearing, label) ==
    (/\ helperCall # Null
     /\ helperCall.fn = "bearingToDirection"
     /\ helperCall.result # Null
     /\ helperCall.args[1] = bearing)
        => Val(helperCall.result).value = label

\* the label is the one of the eight whose direction, a multiple of 45
\* degrees, is less than 22.5 degrees away from the bearing
CentredArcs ==
    \A b \in 0 .. 359 : \A k \in 0 .. 8 :
        2 * Abs(b - 45 * k) < 45
            => Compass(b, <<"N", "NE", "E", "SE", "S", "SW", "W", "NW", "N">>[k + 1])

\* C23 as stated: the bearing is mapped to one of the 8 labels by 45-degree
\* arcs centred on N, NE, E, SE, S, SW, W, NW, with 0 -> N, 44 -> N,
\* 46 -> NE and 359 -> N.
C23_CompassExamples ==
    /\ CentredArcs
    /\ Compass(0, "N")
    /\ Compass(44, "N")
    /\ Compass(46, "NE")
    /\ Compass(359, "N")

\* C23 amended: the bearing is mapped to one of the 8 labels by 45-degree
\* arcs centred on N, NE, E, SE, S, SW, W, NW, with 0 -> N, 44 -> NE,
\* 46 -> NE and 359 -> N.
C23_CompassCentred ==
    /\ CentredArcs
    /\ Compass(0, "N")
    /\ Compass(44, "NE")
    /\ Compass(46, "NE")
    /\ Compass(359, "N")

C23_Bearing44 ==
    /\ helperCall # Null
    /\ helperCall.fn = "bearingToDirection"
    /\ helperCall.args[1] = 44
    /\ helperCall.result # Null
    /\ Val(helperCall.result).value = "NE"

\* C24: completing a session appends the end fix to the path only if it is
\* not already the last element of the path: the path of the completed
\* session is the path of the open session when that path ends with the end
\* fix, and that path followed by the end fix otherwise.
C24_EndFixAppendedOnce ==
    [][(currentSession # Null /\ Len(walkingSessions') = Len(walkingSessions) + 1)
         => LET path == Val(currentSession).path
                completed == walkingSessions'[Len(walkingSessions')]
                endFix == Val(completed.endLocation)
            IN completed.path = IF path[Len(path)] = endFix
                                THEN path
                                ELSE Append(path, endFix)]_vars

\* the arrival time predicted for this distance at this speed
Predicted(distance, speed) == Some(now + (distance * 3600000) \div speed)

\* C28: the arrival time is never predicted with a speed of 0 or less: the
\* fallback walking speed is always above 0, whatever sessions were
\* completed; a fix changes the estimated arrival time only to the
\* prediction at the positive average speed of the session its callback
\* holds, and leaves it alone while that speed is 0; startNavigation changes
\* it only to the prediction at the fallback walking speed.
C28_PredictionSpeedPositive ==
    [][/\ averageWalkingSpeed > 0
       /\ averageWalkingSpeed' > 0
       /\ (estimatedArrivalTime' # estimatedArrivalTime /\ lastEvent'.op = "fix")
            => \E w \in watches :
                 /\ w.currentSession # Null
                 /\ w.endPoint # Null
                 /\ Val(w.currentSession).averageSpeed > 0
                 /\ estimatedArrivalTime'
                      = Predicted(Abs(Val(lastEvent'.fix).latitude - Val(w.endPoint)),
                                  Val(w.currentSession).averageSpeed)
       /\ (estimatedArrivalTime' # estimatedArrivalTime /\ lastEvent'.op = "start")
            => /\ distanceToDestination # Null
               /\ estimatedArrivalTime'
                    = Predicted(Val(distanceToDestination), averageWalkingSpeed)
       /\ (estimatedArrivalTime' # estimatedArrivalTime
              /\ lastEvent'.op \notin {"fix", "start"})
            => estimatedArrivalTime' = Null]_vars

\* C28, witness: with a session of average speed 0 in the history, a fix has
\* set the estimated arrival time to the prediction at the speed of the
\* session its callback holds.
C28_PredictedAfterFix ==
    /\ lastEvent.op = "fix"
    /\ Len(walkingSessions) > 0
    /\ walkingSessions[1].averageSpeed = 0
    /\ averageWalkingSpeed > 0
    /\ \E w \in watches :
          /\ w.currentSession # Null
          /\ w.endPoint # Null
          /\ w.navigationMode
          /\ Val(w.currentSession).averageSpeed > 0
          /\ estimatedArrivalTime
               = Predicted(Abs(Val(lastEvent.fix).latitude - Val(w.endPoint)),
                           Val(w.currentSession).averageSpeed)

\* C25: every completed session of the history has its end time and end fix
\* set, a duration of end time minus start time that is not negative, the
\* last element of its path as end fix, the length of its path as
\* totalDistance and the speed of that distance in that duration as
\* averageSpeed.
C25_CompletedSessionFrozen ==
    \A i \in 1..Len(walkingSessions) :
        LET s == walkingSessions[i]
        IN /\ s.endTime # Null
           /\ s.endLocation # Null
           /\ s.duration = Val(s.endTime) - s.startTime
           /\ s.duration >= 0
           /\ Val(s.endLocation) = s.path[Len(s.path)]
           /\ s.totalDistance = PathLength(s.path)
           /\ s.averageSpeed = IF s.duration = 0 THEN 0
                               ELSE (s.totalDistance * 3600000) \div s.duration

\* C25, witness: a session that got a fix and was completed later, after it
\* covered some distance in some time.
C25_CompletedAfterWalk ==
    \E i \in 1..Len(walkingSessions) :
        /\ Len(walkingSessions[i].path) >= 3
        /\ walkingSessions[i].duration > 0
        /\ walkingSessions[i].totalDistance > 0
        /\ walkingSessions[i].averageSpeed > 0

\* C26: the path of every session, open or completed, is not empty and
\* starts with the start fix of the session.
C26_PathStartsAtStartFix ==
    \A s \in AllSessions :
        /\ Len(s.path) >= 1
        /\ s.path[1] = s.startLocation

\* C26, witness: a fix away from the start was appended to the open session,
\* and a session with an appended fix was completed.
C26_FixAppended ==
    /\ lastEvent.op = "fix"
    /\ currentSession # Null
    /\ Len(Val(currentSession).path) >= 2
    /\ Val(currentSession).path[2] # Val(currentSession).startLocation
    /\ \E i \in 1..Len(walkingSessions) : Len(walkingSessions[i].path) >= 3

\* C27: the averageSpeed of every session, open or completed, is 0 when its
\* duration is 0, and its totalDistance over its duration otherwise.
C27_SpeedOfDistanceAndDuration ==
    \A s \in AllSessions :
        IF s.duration = 0
        THEN s.averageSpeed = 0
        ELSE s.averageSpeed = (s.totalDistance * 3600000) \div s.duration

\* C27, witness: an open session that covered some distance in no time, and
\* a completed one that covered some distance in some time.
C27_DistanceInNoTime ==
    /\ currentSession # Null
    /\ Val(currentSession).duration = 0
    /\ Val(currentSession).totalDistance > 0
    /\ Val(currentSession).averageSpeed = 0
    /\ \E i \in 1..Len(walkingSessions) :
          walkingSessions[i].duration > 0 /\ walkingSessions[i].averageSpeed > 0

\* C29: the request of a single position is independent of the watch: the
\* steps that open it and that end it leave the watch, the navigation mode,
\* the trail and the open session alone; it ends either with a complete
\* position as the current location or, on failure, with the current
\* location unchanged and an error recorded; a fix of the watch while the
\* request is pending is applied and leaves the request pending.
C29_SingleRequestIndependent ==
    [][/\ (pendingPosition' # pendingPosition)
            => UNCHANGED <<watchId, watches, isTracking, navigationMode,
                           locationHistory, currentSession, walkingSessions>>
       /\ (pendingPosition # Null /\ pendingPosition' = Null)
            => \/ /\ currentLocation' # Null
                  /\ Val(currentLocation').timestamp = now
                  /\ gpsEnabled'
                  /\ gpsError' = gpsError
               \/ /\ currentLocation' = currentLocation
                  /\ gpsEnabled' = gpsEnabled
                  /\ gpsError' # Null
                  /\ UNCHANGED <<startPoint, endPoint, distanceToDestination,
                                 estimatedArrivalTime>>
       /\ (pendingPosition # Null /\ lastEvent'.op = "fix")
            => /\ pendingPosition' = pendingPosition
               /\ gpsLoading' = gpsLoading
               /\ currentLocation' = lastEvent'.fix
               /\ locationHistory' # locationHistory
               /\ locationHistory'[Len(locationHistory')] = Val(lastEvent'.fix)]_vars

\* C29, witness: a fix of the watch was applied while a request of a single
\* position is pending, with a current location that a failure must keep.
C29_FixWhilePending ==
    /\ pendingPosition # Null
    /\ gpsLoading
    /\ isTracking
    /\ lastEvent.op = "fix"
    /\ currentLocation = lastEvent.fix
    /\ locationHistory[Len(locationHistory)] = Val(currentLocation)

\* C30: the history of completed sessions is append-only: every step leaves
\* the sessions already in the history in place and unchanged, and adds at
\* most new sessions after them.
C30_HistoryAppendOnly ==
    [][/\ Len(walkingSessions') >= Len(walkingSessions)
       /\ SubSeq(walkingSessions', 1, Len(walkingSessions)) = walkingSessions]_vars

\* C30, witness: a second session was added to the history after the first,
\* and an error of the watch was delivered since.
C30_SecondSessionAdded ==
    /\ Len(walkingSessions) = 2
    /\ walkingSessions[1] # walkingSessions[2]
    /\ lastEvent.op = "error"

=============================================================================
